---- MODULE Spec2Model ----
(***************************************************************************)
(* Model of the SprintIR-R20 CO2 sensor driver (src/sprintIRR20.py and     *)
(* src/arguments_values_helpers.py).                                       *)
(*                                                                         *)
(* A session object talks to the sensor over a UART: every method writes   *)
(* an ASCII command line and then polls uart.readline() inside UART_recv.  *)
(* Text is modelled as a sequence of one-character strings so that slices, *)
(* echo comparisons, formatting and parsing are computed, not assumed.     *)
(* A Python value that may be None is a sequence of length <= 1 (<<>> is   *)
(* None); a Python number is a record [f, n, d]: the int n (f = FALSE,     *)
(* d = 1) or the float n/d (f = TRUE).  Floats follow IEEE double, as in   *)
(* CPython.                                                                *)
(***************************************************************************)
EXTENDS Integers, Sequences, FiniteSets, TLC

VARIABLES
    timeout,            \* self.timeout
    scalingFactor,      \* self.scalingFactor
    compensationValue,  \* self.compensationValue
    pressure,           \* self.pressure
    digitalFilter,      \* self.digitalFilter
    op,                 \* the method running, or the last one that ran
    args,               \* its arguments
    pc,                 \* "new", "recv" (inside UART_recv), "idle", "failed"
    step,               \* which command of the method is awaiting its reply
    cmd,                \* the command line written last
    attempts,           \* uart.readline() calls made by the current UART_recv
    recvs,              \* UART_recv invocations made by the method
    writes,             \* the command lines the method has written
    lines,              \* the reply lines UART_recv has returned to the method
    outcome,            \* how the method ended: a return value or an exception
    pending,            \* the command the sensor has not answered yet
    rx                  \* the UART receive buffer: complete lines not yet read

session == <<timeout, scalingFactor, compensationValue, pressure, digitalFilter>>
call == <<op, args, pc, step, cmd, attempts, recvs, writes, lines, outcome>>
wire == <<pending, rx>>
vars == <<session, call, wire>>

(***************************************************************************)
(* Bounds of the model.                                                    *)
(***************************************************************************)
\* Polls the model follows in the loop without timeout (UART_recv, timeout 0).
MaxPolls == 2
\* Largest argument drawn for formatArgument5digits, beside one of 7 digits.
MaxArgument == 100100
\* Pressures, in mbar, drawn for the conversions.
MinPressure == 800
MaxPressure == 1100

(***************************************************************************)
(* Python values.                                                          *)
(***************************************************************************)
None == <<>>
Some(v) == <<v>>
IsNone(a) == a = <<>>
Val(a) == a[1]

PyInt(v) == [f |-> FALSE, n |-> v, d |-> 1]
\* value / self.scalingFactor: Python 3 true division always gives a float.
TrueDiv(v, sf) == [f |-> TRUE, n |-> v, d |-> sf]
\* int(x): truncation toward zero.
Trunc(x) ==
    LET n == IF x.d < 0 THEN -x.n ELSE x.n
        d == IF x.d < 0 THEN -x.d ELSE x.d
    IN  IF n >= 0 THEN n \div d ELSE -((-n) \div d)

Min(a, b) == IF a < b THEN a ELSE b

(***************************************************************************)
(* Text: a line is a sequence of characters.                               *)
(***************************************************************************)
CRLF == <<"\r", "\n">>
Digit == <<"0", "1", "2", "3", "4", "5", "6", "7", "8", "9">>
IsDigit(c) == \E i \in 1..10 : Digit[i] = c
DigitVal(c) == (CHOOSE i \in 1..10 : Digit[i] = c) - 1
IsSpace(c) == c \in {" ", "\r", "\n", "\t"}
\* A byte that is not valid UTF-8 (0xFF, line noise): one element of a line.
NoiseByte == "0xFF"
\* bytes.decode() succeeds; the text it gives has the same ASCII characters.
Decodes(bytes) == \A i \in 1..Len(bytes) : bytes[i] # NoiseByte

\* s[a:b] and s[a:] of Python: out-of-range bounds are clipped, never an error.
Slice(s, a, b) == IF a >= Min(b, Len(s)) THEN <<>> ELSE SubSeq(s, a + 1, Min(b, Len(s)))
SliceFrom(s, a) == Slice(s, a, Len(s))

RECURSIVE NatStr(_)
NatStr(n) == IF n < 10 THEN <<Digit[n + 1]>> ELSE NatStr(n \div 10) \o <<Digit[(n % 10) + 1]>>
IntStr(n) == IF n < 0 THEN <<"-">> \o NatStr(-n) ELSE NatStr(n)
\* repr of a float with at most one decimal digit: "400.0", "40.5".
FloatStr(x) ==
    LET a == IF x.n < 0 THEN -x.n ELSE x.n
    IN  (IF x.n < 0 THEN <<"-">> ELSE <<>>)
            \o NatStr(a \div x.d) \o <<".">> \o <<Digit[(((a % x.d) * 10) \div x.d) + 1]>>
\* str(x)
str(x) == IF x.f THEN FloatStr(x) ELSE IntStr(x.n)

(***************************************************************************)
(* src/arguments_values_helpers.py                                         *)
(***************************************************************************)
\* The while loop of numberOfDigits: n // 10 floors, for ints and floats alike.
RECURSIVE DigitLoop(_, _, _)
DigitLoop(n, d, count) == IF n > 0 THEN DigitLoop(n \div (10 * d), 1, count + 1) ELSE count

numberOfDigits(o) ==
    IF IsNone(o) THEN -1
    ELSE IF Val(o).n = 0 THEN 1
    ELSE DigitLoop(Val(o).n, Val(o).d, 0)

positive(x) == x.n > 0

\* A slip: the branch for 4 digits is missing.
formatArgument5digits_without4(value) ==
    LET digits == numberOfDigits(Some(value))
    IN  CASE digits = 1 -> <<"0", "0", "0", "0">> \o str(value)
          [] digits = 2 -> <<"0", "0", "0">> \o str(value)
          [] digits = 3 -> <<"0", "0">> \o str(value)
          [] OTHER -> str(value)

formatArgument5digits(value) ==
    LET digits == numberOfDigits(Some(value))
    IN  CASE digits = 1 -> <<"0", "0", "0", "0">> \o str(value)
          [] digits = 2 -> <<"0", "0", "0">> \o str(value)
          [] digits = 3 -> <<"0", "0">> \o str(value)
          [] digits = 4 -> <<"0">> \o str(value)
          [] OTHER -> str(value)

(***************************************************************************)
(* Parsing of a reply field: int(text) and int(float(text)).               *)
(* Both strip surrounding whitespace and take an optional sign; int wants  *)
(* digits only, float also takes one decimal point.  The reply alphabet of *)
(* the model has no exponent, underscore, "inf" or "nan".                  *)
(***************************************************************************)
RECURSIVE LStrip(_)
LStrip(s) == IF s # <<>> /\ IsSpace(Head(s)) THEN LStrip(Tail(s)) ELSE s
RECURSIVE RStrip(_)
RStrip(s) == IF s # <<>> /\ IsSpace(s[Len(s)]) THEN RStrip(SubSeq(s, 1, Len(s) - 1)) ELSE s
Strip(s) == RStrip(LStrip(s))
Unsigned(s) == IF s # <<>> /\ Head(s) \in {"+", "-"} THEN Tail(s) ELSE s
Negative(s) == s # <<>> /\ Head(s) = "-"
AllDigits(s) == \A i \in 1..Len(s) : IsDigit(s[i])
RECURSIVE DigitsVal(_)
DigitsVal(s) == IF s = <<>> THEN 0 ELSE 10 * DigitsVal(SubSeq(s, 1, Len(s) - 1)) + DigitVal(s[Len(s)])

\* int(text) succeeds
IntParses(text) == LET u == Unsigned(Strip(text)) IN u # <<>> /\ AllDigits(u)
\* int(text)
IntOf(text) ==
    LET t == Strip(text)
    IN  IF Negative(t) THEN -DigitsVal(Unsigned(t)) ELSE DigitsVal(Unsigned(t))

DotAt(s) == IF \E i \in 1..Len(s) : s[i] = "." THEN CHOOSE i \in 1..Len(s) : s[i] = "." ELSE 0
WholePart(s) == IF DotAt(s) = 0 THEN s ELSE SubSeq(s, 1, DotAt(s) - 1)
FracPart(s) == IF DotAt(s) = 0 THEN <<>> ELSE SubSeq(s, DotAt(s) + 1, Len(s))
\* float(text) succeeds
FloatParses(text) ==
    LET u == Unsigned(Strip(text))
    IN  /\ AllDigits(WholePart(u))
        /\ AllDigits(FracPart(u))
        /\ Len(WholePart(u)) + Len(FracPart(u)) > 0
\* int(float(text)): the fraction is truncated.
IntOfFloat(text) ==
    LET t == Strip(text)
        w == DigitsVal(WholePart(Unsigned(t)))
    IN  IF Negative(t) THEN -w ELSE w

(***************************************************************************)
(* Outcomes of a method and the values the model draws.                    *)
(***************************************************************************)
Ret(v) == [kind |-> "return", val |-> v, exc |-> ""]
Raise(e) == [kind |-> "raise", val |-> 0, exc |-> e]
Running == [kind |-> "running", val |-> 0, exc |-> ""]

\* Constructor arguments: timeout of 1 s (the default), 0 (no timeout), 0.5 s.
Timeouts ==
    { [f |-> FALSE, n |-> 1, d |-> 1], [f |-> FALSE, n |-> 0, d |-> 1],
      [f |-> TRUE, n |-> 1, d |-> 2] }
\* Constructor argument scaling_factor: None (ask the sensor) or an override.
ScalingOverrides == {None, Some(10)}

\* What the sensor holds and reports in its 5-character fields.
SensorScaling == {1, 10}
SensorCompensation == {8192, 8028}
SensorFilter == {16}
SensorReadings == {0, 450, 10050, 10051}

(***************************************************************************)
(* Pressure and compensation (sprintIRR20.py, 417-422).                    *)
(***************************************************************************)
\* int((((compensation - 8192) * 100)/8192 - (1013*0.14)/0.14) * -1).  The
\* division by 8192 is exact in binary floating point; (1013*0.14)/0.14 is
\* 1013.0000000000001, which shows only where the exact result is a negative
\* integer (int() then truncates one step closer to zero).
compensationToPressure(compensation) ==
    LET num == 1013 * 8192 - (compensation - 8192) * 100
    IN  IF num >= 0 THEN num \div 8192
        ELSE IF (-num) % 8192 = 0 THEN 1 - ((-num) \div 8192)
        ELSE -((-num) \div 8192)

\* int(8192 + ((1013 - pressure) * 0.14 / 100) * 8192), which is
\* 8192 + (1013 - pressure) * 7168 / 625 truncated.  For |1013 - pressure| < 625
\* the exact product is an integer only at pressure 1013, so that the rounding
\* of the doubles never reaches the integer part.
pressureToCompensation(p) == Trunc([f |-> TRUE, n |-> 8192 * 625 + (1013 - p) * 7168, d |-> 625])

(***************************************************************************)
(* Protocol engine: uart.write followed by UART_recv (564-593).            *)
(***************************************************************************)
\* timeout_iters = 16 * timeout
timeout_iters == [f |-> timeout.f, n |-> 16 * timeout.n, d |-> timeout.d]

\* An exception leaving the constructor leaves no session behind.
EndPc(name, out) == IF name = "__init__" /\ out.kind = "raise" THEN "failed" ELSE "idle"

\* self.uart.write(command); self.UART_recv(timeout=self.timeout) up to the
\* first readline.  range(timeout_iters) raises TypeError for a float.
WriteThenRecv(name, w, r, command) ==
    /\ writes' = Append(w, command)
    /\ cmd' = command
    /\ pending' = <<command>>
    /\ recvs' = r + 1
    /\ attempts' = 0
    /\ IF timeout.n # 0 /\ timeout_iters.f
         THEN /\ pc' = EndPc(name, Raise("TypeError"))
              /\ outcome' = Raise("TypeError")
         ELSE /\ pc' = "recv"
              /\ outcome' = Running

\* A method is entered: only one runs at a time (the driver is synchronous).
Begin(name, a, b) ==
    /\ pc = "idle"
    /\ op' = name
    /\ args' = [a |-> a, b |-> b]
    /\ step' = 1
    /\ lines' = <<>>

\* The method ends before any I/O.
EndAtOnce(out) ==
    /\ outcome' = out
    /\ pc' = "idle"
    /\ cmd' = <<>>
    /\ attempts' = 0
    /\ recvs' = 0
    /\ writes' = <<>>
    /\ UNCHANGED wire

\* The first command of a method.
FirstCommand(name, command) ==
    /\ WriteThenRecv(name, <<>>, 0, command)
    /\ UNCHANGED rx

\* UART_recv returns a line to the method that called it.
Got(name) ==
    /\ pc = "recv"
    /\ op = name
    /\ rx # <<>>
    /\ rx' = Tail(rx)
    /\ lines' = Append(lines, Head(rx))
    /\ UNCHANGED <<op, args>>

\* The method ends after a reply.
Finish(name, out) ==
    /\ outcome' = out
    /\ pc' = EndPc(name, out)
    /\ attempts' = 0
    /\ UNCHANGED <<cmd, recvs, writes, pending, step>>

\* The next command of a method that sends several.
NextCommand(name, n, command) ==
    /\ step' = n
    /\ WriteThenRecv(name, writes, recvs, command)

\* A slip: a timeout of 0 is taken to mean "do not wait".
UART_recv_poll_no_wait ==
    /\ pc = "recv"
    /\ rx = <<>>
    /\ IF timeout.n # 0 THEN attempts + 1 < timeout_iters.n ELSE attempts < MaxPolls
    /\ attempts' = attempts + 1
    /\ IF timeout.n = 0
         THEN outcome' = Raise("Timeout") /\ pc' = EndPc(op, Raise("Timeout"))
         ELSE UNCHANGED <<pc, outcome>>
    /\ UNCHANGED <<session, op, args, step, cmd, recvs, writes, lines, wire>>

\* uart.readline() returns None and the loop goes on (570-571, 584-587).
UART_recv_poll ==
    /\ pc = "recv"
    /\ rx = <<>>
    /\ IF timeout.n # 0 THEN attempts + 1 < timeout_iters.n ELSE attempts < MaxPolls
    /\ attempts' = attempts + 1
    /\ UNCHANGED <<session, op, args, pc, step, cmd, recvs, writes, lines, outcome, wire>>

\* A slip: Timeout is raised at the last attempt whatever that attempt read.
UART_recv_timeout_unread ==
    /\ pc = "recv"
    /\ timeout.n # 0
    /\ attempts + 1 = timeout_iters.n
    /\ attempts' = attempts + 1
    /\ outcome' = Raise("Timeout")
    /\ pc' = EndPc(op, Raise("Timeout"))
    /\ UNCHANGED <<session, op, args, step, cmd, recvs, writes, lines, wire>>

\* A slip: when the attempts are used up the command is sent once more and
\* the wait starts again.
UART_recv_timeout_retry ==
    /\ pc = "recv"
    /\ rx = <<>>
    /\ timeout.n # 0
    /\ attempts + 1 = timeout_iters.n
    /\ IF Len(writes) < 2
         THEN /\ writes' = Append(writes, cmd)
              /\ pending' = <<cmd>>
              /\ attempts' = 0
              /\ UNCHANGED <<outcome, pc>>
         ELSE /\ attempts' = attempts + 1
              /\ outcome' = Raise("Timeout")
              /\ pc' = EndPc(op, Raise("Timeout"))
              /\ UNCHANGED <<writes, pending>>
    /\ UNCHANGED <<session, op, args, step, cmd, recvs, lines, rx>>

\* The last readline of range(timeout_iters) returns None: Timeout (577-578).
UART_recv_timeout ==
    /\ pc = "recv"
    /\ rx = <<>>
    /\ timeout.n # 0
    /\ attempts + 1 = timeout_iters.n
    /\ attempts' = attempts + 1
    /\ outcome' = Raise("Timeout")
    /\ pc' = EndPc(op, Raise("Timeout"))
    /\ UNCHANGED <<session, op, args, step, cmd, recvs, writes, lines, wire>>

(***************************************************************************)
(* The sensor at the other end of the UART.                                *)
(***************************************************************************)
FieldLine(code, text) == <<" ", code, " ">> \o text \o CRLF
Field5(n) == formatArgument5digits(PyInt(n))
\* The sensor's reply to a command it does not accept.
ErrorLine == <<" ", "?">> \o CRLF
\* The echo of a command, and the echo with its last payload byte damaged.
EchoLine(command) == <<" ">> \o command
DamagedLine(command) ==
    LET l == EchoLine(command)
        i == Len(l) - 2
    IN  [l EXCEPT ![i] = IF l[i] = "9" THEN "8" ELSE "9"]

\* The echo with its last payload byte hit by noise.
NoisyLine(command) ==
    LET l == EchoLine(command) IN [l EXCEPT ![Len(l) - 2] = NoiseByte]

FieldTexts(code) ==
    CASE code = "." -> {Field5(n) : n \in SensorScaling}
      [] code = "s" -> {Field5(n) : n \in SensorCompensation} \cup {<<"-", "0", "0", "0", "1">>}
      [] code = "a" -> {Field5(n) : n \in SensorFilter}
      [] OTHER -> {Field5(n) : n \in SensorReadings}
                    \cup {<<"-", "0", "0", "0", "1">>, <<"1", "2", ".", "5", "0">>}

\* The answer to Y has two lines: the firmware, then the serial number.
FirmwareLine == <<" ", "Y", ",", "L", "P", "1", "5">> \o CRLF
SerialLine == <<" ", "B", " ", "5", "2", "8", "1">> \o CRLF
\* What the sensor still owes once the first line of an answer is sent.
SerialOwed == <<"B">>
SensorOwes(command) == IF command = <<"Y">> \o CRLF THEN <<SerialOwed>> ELSE <<>>

\* The lines the sensor may send in answer to a command.
SensorLines(command) ==
    IF command = <<"Y">> \o CRLF
    THEN {FirmwareLine, [FirmwareLine EXCEPT ![7] = NoiseByte]}
    ELSE IF command = SerialOwed
    THEN {SerialLine}
    ELSE IF Len(command) = 3 /\ command[1] \in {".", "s", "a", "Z", "z"}
    THEN {FieldLine(command[1], t) : t \in FieldTexts(command[1])}
            \cup {FieldLine(command[1], <<"x", "x", "x", "x", "x">>),
                  FieldLine(command[1], <<"0", "0", "0", "1", NoiseByte>>), ErrorLine}
    ELSE {EchoLine(command), DamagedLine(command), NoisyLine(command), command, ErrorLine}

\* The sensor answers the command whose reply the driver is waiting for, one
\* line at a time.
SensorReply ==
    /\ pc = "recv"
    /\ pending # <<>>
    /\ rx = <<>>
    /\ \E l \in SensorLines(Head(pending)) : rx' = Append(rx, l)
    /\ pending' = SensorOwes(Head(pending)) \o Tail(pending)
    /\ UNCHANGED <<session, call>>

(***************************************************************************)
(* Field-slice getters: what each does with the line UART_recv returned.   *)
(***************************************************************************)
\* int(result[3:8]) (174-183, 534-543)
FieldInt(line) ==
    LET result == Slice(line, 3, 8)
    IN  IF IntParses(result) THEN Ret(IntOf(result)) ELSE Raise("ValueError")
getDigitalFilter_result(line) == FieldInt(line)
\* int(self.UART_recv(...)[3:8].decode())
getScalingFactorMultiplier_result(line) ==
    IF Decodes(Slice(line, 3, 8)) THEN FieldInt(line) ELSE Raise("UnicodeError")
\* int(float(result[3:8])) (94-116)
getMostRecentCO2Measurement_result(line) ==
    LET result == Slice(line, 3, 8)
    IN  IF FloatParses(result) THEN Ret(IntOfFloat(result)) ELSE Raise("ValueError")
\* 445-455
getPressureAndCompensationValue_result(line) ==
    LET result == Slice(line, 3, 8)
    IN  IF ~Decodes(result) THEN Raise("UnicodeError")
        ELSE IF ~IntParses(result) THEN Raise("ValueError")
        ELSE IF IntOf(result) < 0 THEN Raise("UnexpectedReply")
        ELSE Ret(IntOf(result))

Cmd1(c) == <<c>> \o CRLF

(***************************************************************************)
(* Constructor (26-51), verbose off.                                       *)
(***************************************************************************)
\* A slip: the multiplier is asked of the sensor even when it was supplied.
init_call_always_asks ==
    /\ pc = "new"
    /\ lines' = <<>>
    /\ UNCHANGED <<op, args, session>>
    /\ step' = 1
    /\ FirstCommand("__init__", Cmd1("."))

init_call ==
    /\ pc = "new"
    /\ lines' = <<>>
    /\ UNCHANGED <<op, args, timeout, compensationValue, pressure, digitalFilter>>
    /\ IF IsNone(args.a)
         THEN /\ step' = 1
              /\ FirstCommand("__init__", Cmd1("."))
              /\ UNCHANGED scalingFactor
         ELSE /\ scalingFactor' = Val(args.a)
              /\ step' = 2
              /\ FirstCommand("__init__", Cmd1("s"))

init_reply ==
    /\ Got("__init__")
    /\ UNCHANGED timeout
    /\ LET line == Head(rx)
           r == CASE step = 1 -> getScalingFactorMultiplier_result(line)
                  [] step = 2 -> getPressureAndCompensationValue_result(line)
                  [] OTHER -> getDigitalFilter_result(line)
       IN  IF r.kind = "raise"
           THEN /\ Finish("__init__", r)
                /\ UNCHANGED <<scalingFactor, compensationValue, pressure, digitalFilter>>
           ELSE CASE step = 1 ->
                       /\ scalingFactor' = r.val
                       /\ NextCommand("__init__", 2, Cmd1("s"))
                       /\ UNCHANGED <<compensationValue, pressure, digitalFilter>>
                  [] step = 2 ->
                       /\ compensationValue' = r.val
                       /\ pressure' = compensationToPressure(r.val)
                       /\ NextCommand("__init__", 3, Cmd1("a"))
                       /\ UNCHANGED <<scalingFactor, digitalFilter>>
                  [] OTHER ->
                       /\ digitalFilter' = r.val
                       /\ Finish("__init__", Ret(0))
                       /\ UNCHANGED <<scalingFactor, compensationValue, pressure>>

(***************************************************************************)
(* Pressure and concentration compensation (426-455).                      *)
(***************************************************************************)
\* result = self.UART_recv(timeout=self.timeout)[1:].decode()
EchoReply(line) == SliceFrom(line, 1)

\* result = ...[1:].decode()
\* if result != command: raise SprintIRR20_unexpected_reply() else: return 0
EchoOutcome(line, command) ==
    IF ~Decodes(EchoReply(line)) THEN Raise("UnicodeError")
    ELSE IF EchoReply(line) # command THEN Raise("UnexpectedReply")
    ELSE Ret(0)

CompensationArgs == {None, Some(-1), Some(0), Some(8306), Some(70000)}

setPressureAndCompensationValue_command(value) ==
    <<"S", " ">> \o formatArgument5digits(PyInt(value)) \o CRLF

setPressureAndCompensationValue ==
    \E value \in CompensationArgs :
        /\ Begin("setPressureAndCompensationValue", value, None)
        /\ UNCHANGED session
        /\ IF IsNone(value) \/ ~positive(PyInt(Val(value)))
             THEN EndAtOnce(Ret(-1))
             ELSE FirstCommand("setPressureAndCompensationValue",
                               setPressureAndCompensationValue_command(Val(value)))

\* A slip: the cache is updated before the echo is checked.
setPressureAndCompensationValue_reply_eager ==
    /\ Got("setPressureAndCompensationValue")
    /\ UNCHANGED <<timeout, scalingFactor, pressure, digitalFilter>>
    /\ compensationValue' = Val(args.a)
    /\ Finish("setPressureAndCompensationValue", EchoOutcome(Head(rx), cmd))

setPressureAndCompensationValue_reply ==
    /\ Got("setPressureAndCompensationValue")
    /\ UNCHANGED <<timeout, scalingFactor, pressure, digitalFilter>>
    /\ IF EchoOutcome(Head(rx), cmd).kind = "raise"
         THEN /\ Finish("setPressureAndCompensationValue", EchoOutcome(Head(rx), cmd))
              /\ UNCHANGED compensationValue
         ELSE /\ compensationValue' = Val(args.a)
              /\ Finish("setPressureAndCompensationValue", Ret(0))

getPressureAndCompensationValue ==
    /\ Begin("getPressureAndCompensationValue", None, None)
    /\ UNCHANGED session
    /\ FirstCommand("getPressureAndCompensationValue", Cmd1("s"))

getPressureAndCompensationValue_reply ==
    /\ Got("getPressureAndCompensationValue")
    /\ UNCHANGED session
    /\ Finish("getPressureAndCompensationValue", getPressureAndCompensationValue_result(Head(rx)))

(***************************************************************************)
(* Reply rules shared by the setters.                                      *)
(***************************************************************************)
\* A setter that compares the reply with the command it sent.
EchoCheckedReply(name) ==
    /\ Got(name)
    /\ UNCHANGED session
    /\ Finish(name, EchoOutcome(Head(rx), cmd))

\* result = ...[1:].decode(); if result is None: ... else: return 0, with a
\* result that is never None.
UncheckedReply(name) ==
    /\ Got(name)
    /\ UNCHANGED session
    /\ Finish(name, IF Decodes(EchoReply(Head(rx))) THEN Ret(0) ELSE Raise("UnicodeError"))

\* A getter that slices a field out of the reply.
FieldReply(name, out) ==
    /\ Got(name)
    /\ UNCHANGED session
    /\ Finish(name, out)

\* A method without arguments sending one command.
Plain(name, command) ==
    /\ Begin(name, None, None)
    /\ UNCHANGED session
    /\ FirstCommand(name, command)

(***************************************************************************)
(* Measurements (94-116).                                                  *)
(***************************************************************************)
getMostRecentFilteredCO2Measurement ==
    Plain("getMostRecentFilteredCO2Measurement", Cmd1("Z"))
getMostRecentFilteredCO2Measurement_reply ==
    FieldReply("getMostRecentFilteredCO2Measurement",
               getMostRecentCO2Measurement_result(Head(rx)))

getMostRecentUnfilteredCO2Measurement ==
    Plain("getMostRecentUnfilteredCO2Measurement", Cmd1("z"))
getMostRecentUnfilteredCO2Measurement_reply ==
    FieldReply("getMostRecentUnfilteredCO2Measurement",
               getMostRecentCO2Measurement_result(Head(rx)))

(***************************************************************************)
(* Measurement pipeline (75-89, 118-134).                                  *)
(***************************************************************************)
\* value / 10000 is a double.  Where value is an odd multiple of 50 the
\* double lies just beside the decimal tie and "{:.2f}" rounds the double:
\* 0.045 is stored as 0.04499999999999999833 and 1.005 as
\* 1.00499999999999989, both below the tie.
TieBelow(value) == value \in {450, 10050}

\* float("{:.2f}".format(value / 10000)): a float of hundredths.
PPMtoPercentage(value) ==
    IF value < 0 THEN PyInt(-1)
    ELSE [f |-> TRUE,
          n |-> IF value % 100 < 50 \/ (value % 100 = 50 /\ TieBelow(value))
                THEN value \div 100 ELSE (value \div 100) + 1,
          d |-> 100]

\* A slip: every concentration above zero is taken for one above 1.0 %.
GreaterThanZero(x) == x.n > 0

\* x > 1.0
GreaterThanOne(x) == x.n > x.d

\* Y of the branch value >= 1500 for the values of the model:
\* 2.6661e-16 v^4 - 1.1146e-12 v^3 + 1.7397e-9 v^2 - 1.2556e-6 v - 9.8754e-4
\* evaluated in IEEE double (0.036350023, 1.75052824, 1.75130687,
\* 26084.27399, 26094.76649), to the digits that decide int() below.
correctMeasurement_Y(value) ==
    CASE value = 4500 -> [n |-> 3635, d |-> 100000]
      [] value = 10050 -> [n |-> 17505, d |-> 10000]
      [] value = 10051 -> [n |-> 17513, d |-> 10000]
      [] value = 100500 -> [n |-> 260842740, d |-> 10000]
      [] value = 100510 -> [n |-> 260947665, d |-> 10000]

\* Y of the branch value < 1500: 2.881e-38 v^6 - 9.817e-32 v^5 + 1.304e-25 v^4
\* - 8.126e-20 v^3 + 2.311e-14 v^2 - 2.195e-9 v - 1.471e-3 evaluated in IEEE
\* double (-0.0014712631 for 120, -0.0014719831 for 450).
correctMeasurement_Y_low(value) ==
    CASE value = 120 -> [n |-> -1471, d |-> 1000000]
      [] value = 450 -> [n |-> -1472, d |-> 1000000]

\* value_after = int(value / (1 + Y * (1013 - self.pressure)))
correctMeasurement(value) ==
    IF 1013 - pressure = 0 THEN Trunc(TrueDiv(value, 1))
    ELSE LET Y == IF value >= 1500 THEN correctMeasurement_Y(value)
                  ELSE correctMeasurement_Y_low(value)
         IN  Trunc([f |-> TRUE, n |-> value * Y.d, d |-> Y.d + Y.n * (1013 - pressure)])

\* correctMeasurement called by the user of the driver, on a value of its own.
CorrectionArgs == {120, 450, 4500, 10051}

correctMeasurement_direct ==
    \E value \in CorrectionArgs :
        /\ Begin("correctMeasurement", Some(value), None)
        /\ UNCHANGED session
        /\ EndAtOnce(Ret(correctMeasurement(value)))

\* 81-89, with the raw reading the getter returned
getCO2Measurement_result(raw, check_correction) ==
    IF raw.kind = "raise" THEN raw
    ELSE IF raw.val < 0 THEN Ret(-1)
    ELSE LET value == raw.val * scalingFactor
         IN  IF check_correction /\ GreaterThanOne(PPMtoPercentage(value))
             THEN Ret(correctMeasurement(value))
             ELSE Ret(value)

getCO2Measurement ==
    \E filtered \in BOOLEAN, check_correction \in BOOLEAN :
        /\ Begin("getCO2Measurement", Some(filtered), Some(check_correction))
        /\ UNCHANGED session
        /\ FirstCommand("getCO2Measurement", IF filtered THEN Cmd1("Z") ELSE Cmd1("z"))

getCO2Measurement_reply ==
    /\ Got("getCO2Measurement")
    /\ UNCHANGED session
    /\ Finish("getCO2Measurement",
              getCO2Measurement_result(getMostRecentCO2Measurement_result(Head(rx)),
                                       Val(args.b)))

(***************************************************************************)
(* Digital filter (156-183).                                               *)
(***************************************************************************)
FilterArgs ==
    {None, Some(-1), Some(0), Some(32), Some(65535), Some(65536), Some(65635), Some(65636)}

\* if value is None or value > 65635 or not hp.positive(value) or value == 0
setDigitalFilter_rejects(value) ==
    IsNone(value) \/ Val(value) > 65635 \/ ~positive(PyInt(Val(value))) \/ Val(value) = 0

setDigitalFilter_command(value) ==
    <<"A", " ">> \o formatArgument5digits(PyInt(value)) \o CRLF

setDigitalFilter ==
    \E value \in FilterArgs :
        /\ Begin("setDigitalFilter", value, None)
        /\ UNCHANGED session
        /\ IF setDigitalFilter_rejects(value)
             THEN EndAtOnce(Ret(-1))
             ELSE FirstCommand("setDigitalFilter", setDigitalFilter_command(Val(value)))

\* A slip: the session's digitalFilter follows the value the sensor echoed.
setDigitalFilter_reply_caches ==
    /\ Got("setDigitalFilter")
    /\ UNCHANGED <<timeout, scalingFactor, compensationValue, pressure>>
    /\ digitalFilter' = IF EchoOutcome(Head(rx), cmd) = Ret(0) THEN Val(args.a)
                         ELSE digitalFilter
    /\ Finish("setDigitalFilter", EchoOutcome(Head(rx), cmd))

setDigitalFilter_reply == EchoCheckedReply("setDigitalFilter")

getDigitalFilter == Plain("getDigitalFilter", Cmd1("a"))
getDigitalFilter_reply == FieldReply("getDigitalFilter", getDigitalFilter_result(Head(rx)))

(***************************************************************************)
(* Zero-point settings (201-280).                                          *)
(***************************************************************************)
ReadingArgs == {None, Some(0), Some(400)}
ConcentrationArgs == {None, Some(-5), Some(0), Some(410)}
PpmArgs == {None, Some(-1), Some(0), Some(400), Some(405)}

\* The test names known_reading four times and known_concentration never.
fineTuneZeroPoint_rejects(known_reading, known_concentration) ==
    \/ IsNone(known_reading) \/ ~positive(PyInt(Val(known_reading)))
    \/ IsNone(known_reading) \/ ~positive(PyInt(Val(known_reading)))

fineTuneZeroPoint_command(known_reading, known_concentration) ==
    <<"F", " ">> \o IntStr(Trunc(TrueDiv(known_reading, scalingFactor)))
        \o <<" ">> \o IntStr(Trunc(TrueDiv(known_concentration, scalingFactor))) \o CRLF

fineTuneZeroPoint ==
    \E known_reading \in ReadingArgs, known_concentration \in ConcentrationArgs :
        /\ Begin("fineTuneZeroPoint", known_reading, known_concentration)
        /\ UNCHANGED session
        /\ IF fineTuneZeroPoint_rejects(known_reading, known_concentration)
             THEN EndAtOnce(Ret(-1))
             ELSE IF IsNone(known_concentration)
             THEN EndAtOnce(Raise("TypeError"))   \* None / self.scalingFactor
             ELSE FirstCommand("fineTuneZeroPoint",
                               fineTuneZeroPoint_command(Val(known_reading),
                                                         Val(known_concentration)))

fineTuneZeroPoint_reply == UncheckedReply("fineTuneZeroPoint")

zeroPointFreshAir == Plain("zeroPointFreshAir", Cmd1("G"))
zeroPointFreshAir_reply == UncheckedReply("zeroPointFreshAir")

zeroPointNitrogen == Plain("zeroPointNitrogen", Cmd1("U"))
zeroPointNitrogen_reply == UncheckedReply("zeroPointNitrogen")

\* if value is None or not hp.positive(value)
PositiveOnly_rejects(value) == IsNone(value) \/ ~positive(PyInt(Val(value)))

\* value = value/self.scalingFactor; code + " " + formatArgument5digits(value)
ScaledCommand(code, value) ==
    <<code, " ">> \o formatArgument5digits(TrueDiv(value, scalingFactor)) \o CRLF

zeroPointManualSetting ==
    \E value \in PpmArgs :
        /\ Begin("zeroPointManualSetting", value, None)
        /\ UNCHANGED session
        /\ IF PositiveOnly_rejects(value)
             THEN EndAtOnce(Ret(-1))
             ELSE FirstCommand("zeroPointManualSetting", ScaledCommand("u", Val(value)))

zeroPointManualSetting_reply == EchoCheckedReply("zeroPointManualSetting")

zeroPointKnownGas ==
    \E value \in PpmArgs :
        /\ Begin("zeroPointKnownGas", value, None)
        /\ UNCHANGED session
        /\ IF PositiveOnly_rejects(value)
             THEN EndAtOnce(Ret(-1))
             ELSE FirstCommand("zeroPointKnownGas", ScaledCommand("X", Val(value)))

zeroPointKnownGas_reply == UncheckedReply("zeroPointKnownGas")

(***************************************************************************)
(* Background concentration, sent as a two-byte word (290-350).            *)
(***************************************************************************)
\* A slip: the word is split before the value is scaled.
msb_unscaled(value) == Trunc(TrueDiv(value, 256))

\* value = value/self.scalingFactor; msb = int(value/256)
msb(value) == Trunc(TrueDiv(value, scalingFactor * 256))
\* lsb = int(value - (256*msb))
lsb(value) == Trunc(TrueDiv(value - 256 * msb(value) * scalingFactor, scalingFactor))

BackgroundCommand(parameter, byte) ==
    <<"P", " ">> \o parameter \o <<" ">> \o formatArgument5digits(PyInt(byte)) \o CRLF

\* A slip: the LSB command is written right after the MSB command, before the
\* reply to the MSB command has been received.
Background_pipelined(name, parameter) ==
    \E value \in PpmArgs :
        /\ Begin(name, value, None)
        /\ UNCHANGED session
        /\ IF PositiveOnly_rejects(value)
             THEN EndAtOnce(Ret(-1))
             ELSE /\ writes' = <<BackgroundCommand(parameter, msb(Val(value))),
                                 BackgroundCommand(parameter, lsb(Val(value)))>>
                  /\ cmd' = BackgroundCommand(parameter, msb(Val(value)))
                  /\ pending' = writes'
                  /\ recvs' = 1
                  /\ attempts' = 0
                  /\ pc' = "recv"
                  /\ outcome' = Running
                  /\ UNCHANGED rx

\* Both setters up to the first write.
Background(name, parameter) ==
    \E value \in PpmArgs :
        /\ Begin(name, value, None)
        /\ UNCHANGED session
        /\ IF PositiveOnly_rejects(value)
             THEN EndAtOnce(Ret(-1))
             ELSE FirstCommand(name, BackgroundCommand(parameter, msb(Val(value))))

\* The reply to the MSB command, then the reply to the LSB command, of which
\* result_lsb is the part of the line the method compares with command_lsb.
BackgroundReply(name, parameter, result_lsb) ==
    /\ Got(name)
    /\ UNCHANGED session
    /\ IF step = 1
         THEN IF EchoOutcome(Head(rx), cmd).kind = "raise"
                THEN Finish(name, EchoOutcome(Head(rx), cmd))
                ELSE NextCommand(name, 2, BackgroundCommand(parameter, lsb(Val(args.a))))
         ELSE Finish(name, IF ~Decodes(result_lsb) THEN Raise("UnicodeError")
                           ELSE IF result_lsb # cmd THEN Raise("UnexpectedReply")
                           ELSE Ret(0))

setBackgroundPPMAutozeroing ==
    Background("setBackgroundPPMAutozeroing", <<"0", "0", "0", "0", "8">>)
\* result_lsb = self.UART_recv(timeout=self.timeout)[9:14].decode()
setBackgroundPPMAutozeroing_reply ==
    BackgroundReply("setBackgroundPPMAutozeroing", <<"0", "0", "0", "0", "9">>,
                    Slice(Head(rx), 9, 14))

setBackgroundPPMFreshAir ==
    Background("setBackgroundPPMFreshAir", <<"0", "0", "0", "1", "0">>)
\* result_lsb = self.UART_recv(timeout=self.timeout)[1:].decode()
setBackgroundPPMFreshAir_reply ==
    BackgroundReply("setBackgroundPPMFreshAir", <<"0", "0", "0", "1", "1">>,
                    EchoReply(Head(rx)))

(***************************************************************************)
(* Mode (375-389).                                                         *)
(***************************************************************************)
ModeArgs == {None, Some(-1), Some(0), Some(1), Some(2), Some(3)}

\* A slip: the mode is sent without its four zeros.
switchMode_command_unpadded(mode) == <<"K", " ">> \o IntStr(mode) \o CRLF

switchMode_command(mode) == <<"K", " ", "0", "0", "0", "0">> \o IntStr(mode) \o CRLF

switchMode ==
    \E mode \in ModeArgs :
        /\ Begin("switchMode", mode, None)
        /\ UNCHANGED session
        /\ IF mode \in {Some(0), Some(1), Some(2)}
             THEN FirstCommand("switchMode", switchMode_command(Val(mode)))
             ELSE EndAtOnce(Ret(-1))

switchMode_reply == EchoCheckedReply("switchMode")

(***************************************************************************)
(* Auto-zeroing (472-528).                                                 *)
(***************************************************************************)
DayArgs == {None, Some(0), Some(1), Some(8), Some(10)}

\* A slip: "and" for "or" in the test of the digits.
setInitialAndIntervalAutoZeroing_rejects_and(initial, regular) ==
    IF \/ IsNone(initial) \/ ~positive(PyInt(Val(initial)))
       \/ IsNone(regular) \/ ~positive(PyInt(Val(regular)))
    THEN TRUE
    ELSE /\ numberOfDigits(Some(PyInt(Val(initial)))) > 1
         /\ numberOfDigits(Some(PyInt(Val(regular)))) > 1

setInitialAndIntervalAutoZeroing_rejects(initial, regular) ==
    IF \/ IsNone(initial) \/ ~positive(PyInt(Val(initial)))
       \/ IsNone(regular) \/ ~positive(PyInt(Val(regular)))
    THEN TRUE
    ELSE \/ numberOfDigits(Some(PyInt(Val(initial)))) > 1
         \/ numberOfDigits(Some(PyInt(Val(regular)))) > 1

setInitialAndIntervalAutoZeroing_command(initial, regular) ==
    <<"@", " ">> \o IntStr(initial) \o <<".", "0", " ">> \o IntStr(regular)
        \o <<".", "0">> \o CRLF

setInitialAndIntervalAutoZeroing ==
    \E initial \in DayArgs, regular \in DayArgs :
        /\ Begin("setInitialAndIntervalAutoZeroing", initial, regular)
        /\ UNCHANGED session
        /\ IF setInitialAndIntervalAutoZeroing_rejects(initial, regular)
             THEN EndAtOnce(Ret(-1))
             ELSE FirstCommand("setInitialAndIntervalAutoZeroing",
                               setInitialAndIntervalAutoZeroing_command(Val(initial),
                                                                        Val(regular)))

setInitialAndIntervalAutoZeroing_reply ==
    EchoCheckedReply("setInitialAndIntervalAutoZeroing")

getAutoZeroingConfiguration == Plain("getAutoZeroingConfiguration", <<"@", " ">> \o CRLF)
getAutoZeroingConfiguration_reply == UncheckedReply("getAutoZeroingConfiguration")

\* value is the truth value of the argument, 1 for True.
switchAutoZeroing ==
    \E value \in {0, 1} :
        /\ Begin("switchAutoZeroing", Some(value), None)
        /\ UNCHANGED session
        /\ FirstCommand("switchAutoZeroing",
                        IF value # 0 THEN <<"@", " ", "1">> \o CRLF
                                     ELSE <<"@", " ", "0">> \o CRLF)

switchAutoZeroing_reply == EchoCheckedReply("switchAutoZeroing")

(***************************************************************************)
(* Misc (534-543).                                                         *)
(***************************************************************************)
getScalingFactorMultiplier == Plain("getScalingFactorMultiplier", Cmd1("."))
getScalingFactorMultiplier_reply ==
    FieldReply("getScalingFactorMultiplier", getScalingFactorMultiplier_result(Head(rx)))

getFirmwareAndSerial == Plain("getFirmwareAndSerial", Cmd1("Y"))

\* firmware = self.UART_recv(...).decode(); serial = self.UART_recv(...).decode()
getFirmwareAndSerial_reply ==
    /\ Got("getFirmwareAndSerial")
    /\ UNCHANGED session
    /\ IF ~Decodes(Head(rx))
         THEN Finish("getFirmwareAndSerial", Raise("UnicodeError"))
         ELSE IF step = 1
         THEN /\ step' = 2
              /\ recvs' = recvs + 1
              /\ attempts' = 0
              /\ pc' = "recv"
              /\ outcome' = Running
              /\ UNCHANGED <<cmd, writes, pending>>
         ELSE Finish("getFirmwareAndSerial", Ret(<<lines[1], Head(rx)>>))

(***************************************************************************)
(* The session.                                                            *)
(***************************************************************************)
Init ==
    /\ timeout \in Timeouts
    /\ scalingFactor = 0
    /\ compensationValue = 0
    /\ pressure = 0
    /\ digitalFilter = 0
    /\ op = "__init__"
    /\ args \in {[a |-> o, b |-> None] : o \in ScalingOverrides}
    /\ pc = "new"
    /\ step = 0
    /\ cmd = <<>>
    /\ attempts = 0
    /\ recvs = 0
    /\ writes = <<>>
    /\ lines = <<>>
    /\ outcome = Running
    /\ pending = <<>>
    /\ rx = <<>>

Next ==
    \/ init_call
    \/ init_reply
    \/ UART_recv_poll
    \/ UART_recv_timeout
    \/ SensorReply
    \/ setPressureAndCompensationValue
    \/ setPressureAndCompensationValue_reply
    \/ getPressureAndCompensationValue
    \/ getPressureAndCompensationValue_reply
    \/ getCO2Measurement
    \/ getCO2Measurement_reply
    \/ correctMeasurement_direct
    \/ getMostRecentFilteredCO2Measurement
    \/ getMostRecentFilteredCO2Measurement_reply
    \/ getMostRecentUnfilteredCO2Measurement
    \/ getMostRecentUnfilteredCO2Measurement_reply
    \/ setDigitalFilter
    \/ setDigitalFilter_reply
    \/ getDigitalFilter
    \/ getDigitalFilter_reply
    \/ fineTuneZeroPoint
    \/ fineTuneZeroPoint_reply
    \/ zeroPointFreshAir
    \/ zeroPointFreshAir_reply
    \/ zeroPointNitrogen
    \/ zeroPointNitrogen_reply
    \/ zeroPointManualSetting
    \/ zeroPointManualSetting_reply
    \/ zeroPointKnownGas
    \/ zeroPointKnownGas_reply
    \/ setBackgroundPPMAutozeroing
    \/ setBackgroundPPMAutozeroing_reply
    \/ setBackgroundPPMFreshAir
    \/ setBackgroundPPMFreshAir_reply
    \/ switchMode
    \/ switchMode_reply
    \/ setInitialAndIntervalAutoZeroing
    \/ setInitialAndIntervalAutoZeroing_reply
    \/ getAutoZeroingConfiguration
    \/ getAutoZeroingConfiguration_reply
    \/ switchAutoZeroing
    \/ switchAutoZeroing_reply
    \/ getScalingFactorMultiplier
    \/ getScalingFactorMultiplier_reply
    \/ getFirmwareAndSerial
    \/ getFirmwareAndSerial_reply

Spec == Init /\ [][Next]_vars

(***************************************************************************)
(* The session without a timeout (timeout = 0): UART_recv takes its        *)
(* unbounded loop (581-593) and the bounded one is never entered.  The     *)
(* sensor answers every command it is sent and the blocked call goes on    *)
(* running.                                                                *)
(***************************************************************************)
InitLive == Init /\ timeout = PyInt(0)

NextLive ==
    \/ init_call
    \/ init_reply
    \/ UART_recv_poll
    \/ SensorReply
    \/ setPressureAndCompensationValue
    \/ setPressureAndCompensationValue_reply
    \/ getPressureAndCompensationValue
    \/ getPressureAndCompensationValue_reply
    \/ getCO2Measurement
    \/ getCO2Measurement_reply
    \/ correctMeasurement_direct
    \/ getMostRecentFilteredCO2Measurement
    \/ getMostRecentFilteredCO2Measurement_reply
    \/ getMostRecentUnfilteredCO2Measurement
    \/ getMostRecentUnfilteredCO2Measurement_reply
    \/ setDigitalFilter
    \/ setDigitalFilter_reply
    \/ getDigitalFilter
    \/ getDigitalFilter_reply
    \/ fineTuneZeroPoint
    \/ fineTuneZeroPoint_reply
    \/ zeroPointFreshAir
    \/ zeroPointFreshAir_reply
    \/ zeroPointNitrogen
    \/ zeroPointNitrogen_reply
    \/ zeroPointManualSetting
    \/ zeroPointManualSetting_reply
    \/ zeroPointKnownGas
    \/ zeroPointKnownGas_reply
    \/ setBackgroundPPMAutozeroing
    \/ setBackgroundPPMAutozeroing_reply
    \/ setBackgroundPPMFreshAir
    \/ setBackgroundPPMFreshAir_reply
    \/ switchMode
    \/ switchMode_reply
    \/ setInitialAndIntervalAutoZeroing
    \/ setInitialAndIntervalAutoZeroing_reply
    \/ getAutoZeroingConfiguration
    \/ getAutoZeroingConfiguration_reply
    \/ switchAutoZeroing
    \/ switchAutoZeroing_reply
    \/ getScalingFactorMultiplier
    \/ getScalingFactorMultiplier_reply
    \/ getFirmwareAndSerial
    \/ getFirmwareAndSerial_reply

\* UART_recv hands the line it read to its caller (572-574, 588-589).
UART_recv_returns ==
    /\ pc = "recv"
    /\ rx # <<>>
    /\ rx' = Tail(rx)
    /\ lines' = Append(lines, Head(rx))

\* The sensor answers the command it was sent, and the driver, which is the
\* running program, goes on with the line it has read.
SpecLive ==
    /\ InitLive
    /\ [][NextLive]_vars
    /\ WF_vars(SensorReply)
    /\ WF_<<rx, lines>>(UART_recv_returns)

(***************************************************************************)
(* The session on a line where an answer may come late.  UART_recv gives   *)
(* up after its attempts (577-578) and a method may raise between the two  *)
(* lines of an answer (555-556); the sensor knows nothing of it and sends  *)
(* what it owes.  No method empties the receive buffer before it writes,   *)
(* so that the line waits there for the next readline.                     *)
(***************************************************************************)
\* The sensor sends a line it owes after the method that asked has ended.
SensorLateReply ==
    /\ pc = "idle"
    /\ pending # <<>>
    /\ rx = <<>>
    /\ \E l \in SensorLines(Head(pending)) : rx' = Append(rx, l)
    /\ pending' = SensorOwes(Head(pending)) \o Tail(pending)
    /\ UNCHANGED <<session, call>>

InitLate == Init /\ timeout = PyInt(1)

\* The methods followed on this line: the constructor, the getters of the
\* reading and of the digital filter, the setter of the digital filter and
\* getFirmwareAndSerial.
NextLate ==
    \/ init_call
    \/ init_reply
    \/ UART_recv_poll
    \/ UART_recv_timeout
    \/ SensorReply
    \/ SensorLateReply
    \/ getMostRecentFilteredCO2Measurement
    \/ getMostRecentFilteredCO2Measurement_reply
    \/ setDigitalFilter
    \/ setDigitalFilter_reply
    \/ getDigitalFilter
    \/ getDigitalFilter_reply
    \/ getFirmwareAndSerial
    \/ getFirmwareAndSerial_reply

SpecLate == InitLate /\ [][NextLate]_vars

(***************************************************************************)
(* The pure functions, applied to arguments drawn at the start: the        *)
(* helper formatArgument5digits, and pressureToCompensation followed by    *)
(* compensationToPressure.                                                 *)
(***************************************************************************)
FormatInputs == (0..MaxArgument) \cup {1234567}
PressureInputs == MinPressure..MaxPressure

InitPure ==
    /\ timeout = PyInt(1)
    /\ scalingFactor = 1
    /\ compensationValue = 0
    /\ pressure = 0
    /\ digitalFilter = 0
    /\ \/ op = "formatArgument5digits" /\ args \in {[a |-> Some(v), b |-> None] : v \in FormatInputs}
       \/ op = "pressureToCompensation" /\ args \in {[a |-> Some(p), b |-> None] : p \in PressureInputs}
    /\ pc = "new"
    /\ step = 0
    /\ cmd = <<>>
    /\ attempts = 0
    /\ recvs = 0
    /\ writes = <<>>
    /\ lines = <<>>
    /\ outcome = Running
    /\ pending = <<>>
    /\ rx = <<>>

formatArgument5digits_apply ==
    /\ pc = "new"
    /\ op = "formatArgument5digits"
    /\ outcome' = Ret(formatArgument5digits(PyInt(Val(args.a))))
    /\ pc' = "idle"
    /\ UNCHANGED <<session, op, args, step, cmd, attempts, recvs, writes, lines, wire>>

pressureToCompensation_apply ==
    /\ pc = "new"
    /\ op = "pressureToCompensation"
    /\ step = 0
    /\ compensationValue' = pressureToCompensation(Val(args.a))
    /\ step' = 1
    /\ UNCHANGED <<timeout, scalingFactor, pressure, digitalFilter, op, args, pc, cmd,
                   attempts, recvs, writes, lines, outcome, wire>>

compensationToPressure_apply ==
    /\ pc = "new"
    /\ op = "pressureToCompensation"
    /\ step = 1
    /\ pressure' = compensationToPressure(compensationValue)
    /\ step' = 2
    /\ pc' = "idle"
    /\ outcome' = Ret(compensationToPressure(compensationValue))
    /\ UNCHANGED <<timeout, scalingFactor, compensationValue, digitalFilter, op, args, cmd,
                   attempts, recvs, writes, lines, wire>>

NextPure ==
    \/ formatArgument5digits_apply
    \/ pressureToCompensation_apply
    \/ compensationToPressure_apply

SpecPure == InitPure /\ [][NextPure]_vars

(***************************************************************************)
(* Properties.                                                             *)
(***************************************************************************)
\* The constructor has returned: a session exists.
Constructed == op # "__init__" \/ pc = "idle"
\* The method has ended (returned or raised).
Ended == pc \in {"idle", "failed"} /\ outcome.kind # "running"

\* ceil(16 * timeoutSeconds)
CeilSixteen(t) == (16 * t.n + t.d - 1) \div t.d

\* C1: for every positive timeout, a UART_recv to which the transport never
\* hands a line raises Timeout after exactly ceil(16 * timeout) readline
\* attempts: while it runs it has made fewer, and it ends only with Timeout.
C1_TimeoutAfterCeilAttempts ==
    (timeout.n > 0 /\ recvs > Len(lines)) =>
        IF pc = "recv"
        THEN attempts < CeilSixteen(timeout)
        ELSE outcome = Raise("Timeout") /\ attempts = CeilSixteen(timeout)

\* C2: after any sequence of operations the session's pressure is
\* compensationToPressure of its compensationValue.
C2_PressureFollowsCompensation ==
    Constructed => pressure = compensationToPressure(compensationValue)

\* C3: a step of setPressureAndCompensationValue(v) changes compensationValue
\* only when it consumes a reply that, without its first character, equals
\* the "S <5-digit>" command sent, and then to v; a rejected call, a poll, a
\* timeout and a mismatching reply leave it as it was.
C3_CompensationSetOnlyOnEcho ==
    [][op' = "setPressureAndCompensationValue" =>
          IF /\ pc = "recv"
             /\ rx # <<>>
             /\ lines' = Append(lines, Head(rx))
             /\ Slice(writes[1], 0, 2) = <<"S", " ">>
             /\ SliceFrom(Head(rx), 1) = writes[1]
          THEN compensationValue' = Val(args.a)
          ELSE compensationValue' = compensationValue]_vars

\* setPressureAndCompensationValue(8306) was echoed: the cache went from the
\* sensor's 8192 to 8306.
C3_Witness ==
    /\ op = "setPressureAndCompensationValue"
    /\ outcome = Ret(0)
    /\ args.a = Some(8306)
    /\ compensationValue = 8306

BackgroundSetters == {"setBackgroundPPMAutozeroing", "setBackgroundPPMFreshAir"}
\* The i-th reply the method consumed echoes the i-th command it wrote.
Echoed(i) == i <= Len(lines) /\ i <= Len(writes) /\ SliceFrom(lines[i], 1) = writes[i]

\* C4: a background-PPM setter that has consumed its replies returns 0 when
\* the reply to the MSB command and the reply to the LSB command each echo the
\* command sent, and raises UnexpectedReply when one of them does not.
C4_BackgroundEchoDecides ==
    (op \in BackgroundSetters /\ Ended /\ Len(lines) = recvs /\ recvs > 0) =>
        IF Echoed(1) /\ Echoed(2)
        THEN outcome = Ret(0)
        ELSE outcome = Raise("UnexpectedReply")

NumericSetters ==
    {"setDigitalFilter", "fineTuneZeroPoint", "zeroPointManualSetting", "zeroPointKnownGas",
     "setBackgroundPPMAutozeroing", "setBackgroundPPMFreshAir",
     "setPressureAndCompensationValue", "setInitialAndIntervalAutoZeroing"}
TwoArgumentSetters == {"fineTuneZeroPoint", "setInitialAndIntervalAutoZeroing"}
NullOrNonPositive(o) == IsNone(o) \/ Val(o) <= 0
HasBadArgument ==
    /\ op \in NumericSetters
    /\ NullOrNonPositive(args.a) \/ (op \in TwoArgumentSetters /\ NullOrNonPositive(args.b))

\* C5: a numeric setter called with a null or non-positive argument returns
\* -1 in that step, writes nothing, reads nothing and leaves the session
\* fields as they were.
C5_BadArgumentRejectedWithoutIO ==
    [][(pc = "idle" /\ HasBadArgument') =>
          /\ outcome' = Ret(-1)
          /\ pc' = "idle"
          /\ writes' = <<>>
          /\ recvs' = 0
          /\ session' = session]_vars

\* C6: setDigitalFilter(v) with v outside 1..65535 returns -1 and writes no
\* command.
C6_FilterRangeChecked ==
    (op = "setDigitalFilter" /\ ~IsNone(args.a) /\ Val(args.a) \notin 1..65535) =>
        outcome = Ret(-1) /\ writes = <<>>

\* C7: the session's compensationValue stays in 0..65535.
C7_CompensationInRange == Constructed => compensationValue \in 0..65535

\* C8: after setDigitalFilter(v) has returned 0 the session's digitalFilter is
\* v, and digitalFilter stays in 1..65535.
C8_FilterMirrorsSensor ==
    /\ (op = "setDigitalFilter" /\ outcome = Ret(0)) => digitalFilter = Val(args.a)
    /\ Constructed => digitalFilter \in 1..65535

EchoSetters ==
    {"setDigitalFilter", "zeroPointManualSetting", "setPressureAndCompensationValue",
     "switchMode", "setInitialAndIntervalAutoZeroing", "switchAutoZeroing"}

\* C9: an echo-match setter that has consumed a reply returns 0 exactly when
\* the reply without its first character equals the whole command line sent,
\* CRLF included, and raises UnexpectedReply otherwise.
C9_EchoMatchDecides ==
    (op \in EchoSetters /\ Ended /\ Len(lines) = 1) =>
        IF SliceFrom(lines[1], 1) = writes[1]
        THEN outcome = Ret(0)
        ELSE outcome = Raise("UnexpectedReply")

FieldGetters ==
    {"getMostRecentFilteredCO2Measurement", "getMostRecentUnfilteredCO2Measurement",
     "getDigitalFilter", "getPressureAndCompensationValue", "getScalingFactorMultiplier"}
\* Bytes [3:8] of the reply are text that is the number the getter expects:
\* a decimal number for the measurements, an integer for the settings.
FieldIsNumber(name, line) ==
    IF ~Decodes(Slice(line, 3, 8)) THEN FALSE
    ELSE IF name \in {"getMostRecentFilteredCO2Measurement", "getMostRecentUnfilteredCO2Measurement"}
    THEN FloatParses(Slice(line, 3, 8))
    ELSE IntParses(Slice(line, 3, 8))

\* C10: a field-slice getter that received a reply whose bytes [3:8] are not
\* a number fails with UnexpectedReply.
C10_UnparsableFieldIsUnexpectedReply ==
    (op \in FieldGetters /\ Ended /\ Len(lines) = 1 /\ ~FieldIsNumber(op, lines[1])) =>
        outcome = Raise("UnexpectedReply")

\* The raw reading of a measurement reply: the number in bytes [3:8].
ValidReading(line) == FloatParses(Slice(line, 3, 8))
RawReading(line) == IntOfFloat(Slice(line, 3, 8))
\* getCO2Measurement has consumed a reply that carries a reading.
Measured == op = "getCO2Measurement" /\ Ended /\ Len(lines) = 1 /\ ValidReading(lines[1])

\* C11: with a scaling factor > 0, getCO2Measurement returns -1 for a negative
\* raw reading and a positive ppm for every non-negative raw reading, raw = 0
\* included; the ppm is raw * scalingFactor when no correction applies
\* (check_correction off, or a scaled ppm of at most 10000).
C11_MinusOneOrPositivePpm ==
    (Measured /\ scalingFactor > 0) =>
        IF RawReading(lines[1]) < 0
        THEN outcome = Ret(-1)
        ELSE /\ outcome.kind = "return"
             /\ outcome.val > 0
             /\ (~Val(args.b) \/ RawReading(lines[1]) * scalingFactor <= 10000)
                    => outcome.val = RawReading(lines[1]) * scalingFactor

\* C12: with check_correction true, getCO2Measurement returns the scaled ppm
\* passed through correctMeasurement exactly when the scaled ppm exceeds
\* 10000, and the scaled ppm itself when it is 10000 or less; with
\* check_correction false it returns the scaled ppm, never corrected.
C12_CorrectedAboveTenThousand ==
    (Measured /\ RawReading(lines[1]) >= 0) =>
        LET ppm == RawReading(lines[1]) * scalingFactor
        IN  IF Val(args.b) /\ ppm > 10000
            THEN outcome = Ret(correctMeasurement(ppm))
            ELSE outcome = Ret(ppm)

\* The number of decimal digits of a natural number.
RECURSIVE DecimalDigits(_)
DecimalDigits(v) == IF v < 10 THEN 1 ELSE 1 + DecimalDigits(v \div 10)

Formatted == op = "formatArgument5digits" /\ pc = "idle"

\* C13: for an integer v in 0..99999, formatArgument5digits(v) is exactly 5
\* decimal digits that parse back to v; for an integer with more than 5
\* digits it is the decimal string of v without padding.
C13_FiveDigitsRoundTrip ==
    Formatted =>
        LET v == Val(args.a)
            text == outcome.val
        IN  /\ AllDigits(text)
            /\ IntParses(text)
            /\ IntOf(text) = v
            /\ IF v <= 99999 THEN Len(text) = 5
               ELSE Len(text) = DecimalDigits(v) /\ text[1] # "0"

\* 7 was padded to "00007" and 100000 was left as it is.
C13_Witness ==
    /\ Formatted
    /\ \/ Val(args.a) = 7 /\ outcome.val = <<"0", "0", "0", "0", "7">>
       \/ Val(args.a) = 100000 /\ outcome.val = <<"1", "0", "0", "0", "0", "0">>

\* C14: for an integer pressure p in 800..1100 mbar,
\* compensationToPressure(pressureToCompensation(p)) is within 1 mbar of p.
C14_PressureRoundTrip ==
    (op = "pressureToCompensation" /\ step = 2 /\ Val(args.a) \in 800..1100) =>
        /\ pressure - Val(args.a) <= 1
        /\ Val(args.a) - pressure <= 1

\* This step writes a command line to the transport.
Written ==
    \/ pc \in {"new", "idle"} /\ writes' # <<>>
    \/ pc = "recv" /\ Len(writes') > Len(writes)

\* C15: commands never overlap.  A command is written only when no receive is
\* outstanding: at the start of a call, every earlier receive having ended
\* with its reply line or with Timeout, or in the very step in which the
\* receive for the previous command returns its reply line; and it is the
\* only command then awaiting a reply.
C15_CommandsNeverOverlap ==
    [][Written =>
          /\ Len(writes') = Len(lines') + 1
          /\ IF pc = "recv"
             THEN rx # <<>> /\ lines' = Append(lines, Head(rx)) /\ Len(lines') = Len(writes)
             ELSE \/ pc = "new"
                  \/ pc = "idle" /\ (Len(lines) = recvs \/ outcome = Raise("Timeout"))]_vars

\* The LSB command of a background setter is on the wire, written after the
\* reply to the MSB command was received.
C15_Witness ==
    /\ op \in BackgroundSetters
    /\ pc = "recv"
    /\ Len(writes) = 2
    /\ Len(lines) = 1
    /\ Echoed(1)

\* No command line occurs twice among those a call has written.
WrittenOnce(w) == \A i, j \in 1..Len(w) : i # j => w[i] # w[j]
ProtocolErrors == {"Timeout", "UnexpectedReply"}

\* C16: no operation retries.  A call writes each command line at most once;
\* the step in which a receive ends with Timeout or UnexpectedReply writes
\* nothing and ends the call, and that error is the call's outcome.
C16_NoRetry ==
    [][/\ WrittenOnce(writes')
       /\ outcome'.exc \in ProtocolErrors =>
              /\ pc' \in {"idle", "failed"}
              /\ pc = "recv" => writes' = writes /\ pending' = pending]_vars

\* A background setter whose MSB command was not echoed ended with
\* UnexpectedReply having written that one command only.
C16_Witness ==
    /\ op \in BackgroundSetters
    /\ outcome = Raise("UnexpectedReply")
    /\ pc = "idle"
    /\ Len(writes) = 1
    /\ Len(lines) = 1

\* C17: switchMode(m) writes to the transport only for m in {0, 1, 2}, and
\* then exactly the one line "K 0000<m>" CRLF; for every other m it returns
\* -1 having written and read nothing.
C17_ModeCheckedBeforeIO ==
    op = "switchMode" =>
        IF args.a \in {Some(0), Some(1), Some(2)}
        THEN writes = << <<"K", " ", "0", "0", "0", "0", Digit[Val(args.a) + 1], "\r", "\n">> >>
        ELSE writes = <<>> /\ recvs = 0 /\ outcome = Ret(-1) /\ pc = "idle"

\* switchMode(2) sent "K 00002" and was echoed.
C17_Witness ==
    /\ op = "switchMode"
    /\ args.a = Some(2)
    /\ writes = << <<"K", " ", "0", "0", "0", "0", "2", "\r", "\n">> >>
    /\ outcome = Ret(0)

SingleDigit(o) == ~IsNone(o) /\ Val(o) \in 0..9
NullOrLong(o) == IsNone(o) \/ Val(o) >= 10 \/ Val(o) <= -10

\* C18: setInitialAndIntervalAutoZeroing(initial, regular) writes only when
\* both values are single decimal digits, and then the one line
\* "@ <initial>.0 <regular>.0" CRLF; when a value is null or has more than
\* one digit it returns -1 having written and read nothing.
C18_SingleDigitDaysOnly ==
    op = "setInitialAndIntervalAutoZeroing" =>
        /\ writes # <<>> =>
              /\ SingleDigit(args.a) /\ SingleDigit(args.b)
              /\ writes = << <<"@", " ", Digit[Val(args.a) + 1], ".", "0", " ",
                               Digit[Val(args.b) + 1], ".", "0", "\r", "\n">> >>
        /\ (NullOrLong(args.a) \/ NullOrLong(args.b)) =>
              writes = <<>> /\ recvs = 0 /\ outcome = Ret(-1) /\ pc = "idle"

\* (1, 8) was sent as "@ 1.0 8.0" and echoed.
C18_Witness ==
    /\ op = "setInitialAndIntervalAutoZeroing"
    /\ args = [a |-> Some(1), b |-> Some(8)]
    /\ writes = << <<"@", " ", "1", ".", "0", " ", "8", ".", "0", "\r", "\n">> >>
    /\ outcome = Ret(0)

\* How many of the command lines w are the scaling-factor command ".".
DotCount(w) == Cardinality({i \in 1..Len(w) : w[i] = <<".", "\r", "\n">>})

\* C19: the constructor sends "." at most once, and not at all when a
\* scaling_factor is supplied; after construction only getScalingFactorMultiplier
\* sends "."; the cached scalingFactor is left as the constructor set it, and
\* an uncorrected measurement is the raw reading times that cached value.
C19_ScalingFactorFetchedOnce ==
    [][/\ op' = "__init__" =>
              /\ DotCount(writes') <= 1
              /\ ~IsNone(args'.a) => DotCount(writes') = 0 /\ scalingFactor' \in {0, Val(args'.a)}
       /\ op' \notin {"__init__", "getScalingFactorMultiplier"} => DotCount(writes') = 0
       /\ Constructed => scalingFactor' = scalingFactor
       /\ (Measured' /\ RawReading(lines'[1]) >= 0 /\ ~Val(args'.b)) =>
              outcome' = Ret(RawReading(lines'[1]) * scalingFactor)]_vars

\* A session whose cached multiplier is 10 returned a raw reading of 450 as
\* 4500 without sending ".".
C19_Witness ==
    /\ op = "getCO2Measurement"
    /\ scalingFactor = 10
    /\ outcome = Ret(4500)
    /\ DotCount(writes) = 0

\* The driver, not the sensor, took this step.
DriverStep == lines' # lines \/ attempts' # attempts \/ pc' # pc \/ outcome' # outcome

\* C20: in the bounded receive loop an empty read uses up one attempt and
\* raises nothing unless it was the last of the 16 * timeout attempts; a read
\* that finds a line, at the last attempt as at any other, returns that first
\* line, reads no further, and never raises Timeout.
C20_FirstLineEndsTheLoop ==
    [][(pc = "recv" /\ timeout.n # 0 /\ DriverStep) =>
          IF rx = <<>>
          THEN /\ attempts' = attempts + 1
               /\ lines' = lines
               /\ IF attempts' < 16 * timeout.n
                  THEN pc' = "recv" /\ outcome' = outcome
                  ELSE outcome' = Raise("Timeout")
          ELSE /\ lines' = Append(lines, Head(rx))
               /\ rx' = Tail(rx)
               /\ outcome' # Raise("Timeout")]_vars

\* Fifteen empty reads have each used up an attempt without raising, and the
\* reply is there for the sixteenth and last.
C20_Witness ==
    /\ pc = "recv"
    /\ timeout.n = 1
    /\ attempts = 15
    /\ rx # <<>>
    /\ outcome = Running

\* C21: with timeout 0 the receive loop never raises Timeout; an empty read
\* leaves it polling; a read that finds a line returns that line; and when the
\* sensor answers, the call comes out of its receives with the lines.
C21_UnboundedLoopReturnsTheLine ==
    /\ [](timeout.n = 0 => outcome # Raise("Timeout"))
    /\ [][(pc = "recv" /\ timeout.n = 0 /\ DriverStep) =>
              IF rx = <<>>
              THEN pc' = "recv" /\ outcome' = outcome /\ lines' = lines
              ELSE lines' = Append(lines, Head(rx)) /\ rx' = Tail(rx)]_vars
    /\ (pc = "recv" /\ timeout.n = 0) ~> (pc # "recv" /\ Len(lines) = recvs)

\* Without a timeout the loop has polled an empty line several times, raised
\* nothing, and the reply has now arrived.
C21_Witness ==
    /\ pc = "recv"
    /\ timeout.n = 0
    /\ attempts >= 2
    /\ rx # <<>>
    /\ outcome = Running

\* The parameters of the two commands of a background-PPM setter.
MsbParameter(name) ==
    IF name = "setBackgroundPPMAutozeroing" THEN <<"0", "0", "0", "0", "8">>
    ELSE <<"0", "0", "0", "1", "0">>
LsbParameter(name) ==
    IF name = "setBackgroundPPMAutozeroing" THEN <<"0", "0", "0", "0", "9">>
    ELSE <<"0", "0", "0", "1", "1">>
\* "P <parameter> <byte>" + CRLF: the parameter and the byte of a command.
ParameterOf(command) == Slice(command, 2, 7)
ByteOf(command) == IntOf(Slice(command, 8, Len(command) - 2))
IsBackgroundCommand(command) ==
    /\ Slice(command, 0, 2) = <<"P", " ">>
    /\ Slice(command, 7, 8) = <<" ">>
    /\ AllDigits(Slice(command, 8, Len(command) - 2))
    /\ Len(command) = 15
    /\ SliceFrom(command, 13) = CRLF

\* The order of the two commands: the MSB command first, the LSB command only
\* after the reply to the MSB command echoed it, and nothing after the LSB
\* command whatever its reply.
BackgroundOrder ==
    /\ Len(writes) <= 2
    /\ Len(writes) >= 1 =>
          IsBackgroundCommand(writes[1]) /\ ParameterOf(writes[1]) = MsbParameter(op)
    /\ Len(writes) = 2 =>
          /\ Echoed(1)
          /\ IsBackgroundCommand(writes[2])
          /\ ParameterOf(writes[2]) = LsbParameter(op)

\* C22 as stated: the MSB command is written first and the LSB command only
\* after the MSB reply echo-matched, nothing is written after a failed LSB
\* step, and the bytes sent are an exact split of the value (in sensor units,
\* value / scalingFactor): msb = floor(value/256), lsb = value - 256*msb,
\* 256*msb + lsb = value and 0 <= lsb <= 255.
C22_ExactSplitInOrder ==
    op \in BackgroundSetters =>
        /\ BackgroundOrder
        /\ Len(writes) >= 1 =>
              ByteOf(writes[1]) = (Val(args.a) \div scalingFactor) \div 256
        /\ Len(writes) = 2 =>
              /\ (256 * ByteOf(writes[1]) + ByteOf(writes[2])) * scalingFactor = Val(args.a)
              /\ ByteOf(writes[2]) \in 0..255

\* C22, amended: the order of the commands as stated, and the bytes sent split
\* the whole part of value / scalingFactor: msb = floor(v/256) and
\* lsb = floor(v) - 256*msb for v = value / scalingFactor, so that
\* 256*msb + lsb = floor(value / scalingFactor) and 0 <= lsb <= 255.
C22_TruncatedSplitInOrder ==
    op \in BackgroundSetters =>
        /\ BackgroundOrder
        /\ Len(writes) >= 1 =>
              ByteOf(writes[1]) = (Val(args.a) \div scalingFactor) \div 256
        /\ Len(writes) = 2 =>
              /\ 256 * ByteOf(writes[1]) + ByteOf(writes[2]) = Val(args.a) \div scalingFactor
              /\ ByteOf(writes[2]) \in 0..255

\* setBackgroundPPMFreshAir(405) with a scaling factor of 10: the MSB command
\* was echoed, the LSB command carried 40 and its reply did not match; the
\* call ended with the two commands written and nothing more.
C22_Witness ==
    /\ op = "setBackgroundPPMFreshAir"
    /\ args.a = Some(405)
    /\ scalingFactor = 10
    /\ Len(writes) = 2
    /\ ByteOf(writes[2]) = 40
    /\ Ended
    /\ outcome = Raise("UnexpectedReply")

\* C23: a line that a command consumes was sent by the sensor in answer to
\* that command: when UART_recv returns a line, the sensor has answered the
\* command written last (it no longer owes the answer to it), so that the
\* line is not the late answer to a command that ended before.
C23_ReplyAnswersItsCommand ==
    [][(pc = "recv" /\ rx # <<>> /\ lines' = Append(lines, Head(rx)))
          => pending # <<cmd>>]_vars

\* The result of the 4th-degree branch of correctMeasurement.
HighBranch(value) ==
    IF 1013 - pressure = 0 THEN value
    ELSE Trunc([f |-> TRUE, n |-> value * correctMeasurement_Y(value).d,
                d |-> correctMeasurement_Y(value).d
                        + correctMeasurement_Y(value).n * (1013 - pressure)])

\* C25: getCO2Measurement passes to correctMeasurement only values of at
\* least 1500: a scaled ppm below 1500 is returned as it is, and a corrected
\* result is that of the 4th-degree branch; the 6th-degree branch is left to
\* direct calls of correctMeasurement.
C25_CorrectedValueAtLeast1500 ==
    (Measured /\ RawReading(lines[1]) >= 0) =>
        LET ppm == RawReading(lines[1]) * scalingFactor
        IN  IF ppm < 1500 THEN outcome = Ret(ppm)
            ELSE outcome \in {Ret(ppm), Ret(HighBranch(ppm))}

\* getCO2Measurement read 10051 ppm at 1015 mbar and returned the corrected
\* value of the 4th-degree branch.
C25_Witness ==
    /\ Measured
    /\ Val(args.b)
    /\ RawReading(lines[1]) * scalingFactor = 10051
    /\ pressure = 1015
    /\ outcome = Ret(-4016)

\* C24: once the session is constructed, a step changes no session field
\* but compensationValue, and compensationValue only when
\* setPressureAndCompensationValue returns 0; every other operation, and a
\* rejected or raising setPressureAndCompensationValue, leaves scalingFactor,
\* compensationValue, pressure, digitalFilter and timeout as they were.
C24_OnlyCompensationValueChanges ==
    [][Constructed =>
          /\ <<timeout, scalingFactor, pressure, digitalFilter>>'
                = <<timeout, scalingFactor, pressure, digitalFilter>>
          /\ compensationValue' # compensationValue =>
                /\ op' = "setPressureAndCompensationValue"
                /\ outcome' = Ret(0)]_vars

\* setPressureAndCompensationValue(8306) returned 0 on a session started at
\* 8192 and 1013 mbar: compensationValue is 8306 and pressure still 1013,
\* with the digital filter and the scaling factor the constructor read.
C24_Witness ==
    /\ op = "setPressureAndCompensationValue"
    /\ outcome = Ret(0)
    /\ compensationValue = 8306
    /\ pressure = 1013
    /\ digitalFilter = 16
    /\ scalingFactor \in {1, 10}

====
